---- MODULE Spec2Model ----
(***************************************************************************)
(* KYC verification state machine of swaphubu_lite (backend/src/services/  *)
(* kyc_service.py and its collaborators): starting a verification,         *)
(* starting a retry, the Shufti Pro webhook with its decline / retry /     *)
(* block policy, and the admin block switch.                               *)
(*                                                                         *)
(* Strings that the code takes apart are kept as sequences of their parts: *)
(*   - an event such as "verification.accepted" is the sequence of its     *)
(*     dot-separated segments <<"verification", "accepted">>; the empty    *)
(*     event "" is <<>>;                                                   *)
(*   - a reference such as "KYC_<user>_<time>_<hex>" is the sequence of    *)
(*     its underscore-separated parts; the empty reference "" is <<>>.     *)
(* An optional value (Python None / missing dict key) is <<>>, a present   *)
(* value v is <<v>>.                                                       *)
(***************************************************************************)
EXTENDS Integers, Sequences, FiniteSets, TLC

\* ------------------------------------------------------------------ bounds
\* largest number of rows of kyc_verifications that Spec creates
MaxRecords == 2
\* largest number of rows of kyc_verifications that SpecScenario creates
MaxScenarioRecords == 4

\* ------------------------------------------------------- program constants
\* kyc_service.py:598  `if retry_count < 2`
MaxRetryThreshold == 2
\* shufti_service.py:312  `len(signature) < 8`
MinSignatureLen == 8

\* ------------------------------------------------------------------- state
VARIABLES
    users,        \* users table: id -> row (is_verified, is_blocked, profile)
    kyc,          \* kyc_verifications table, in insertion (submitted_at) order
    environment,  \* KYCConfig.environment
    resp,         \* the response to the request handled last: the operation,
                  \* the user it was for, the HTTP status, the error detail
                  \* and the reference it returned or was about
    inflight,     \* the webhook requests that are being processed step by step
                  \* (SpecConcurrent): the webhook, the tables when it was
                  \* delivered, and each request's position and locals
    environ,      \* os.environ: the variables that get_kyc_config reads
    starts,       \* the requests to /kyc/start that are suspended at
                  \* `await shufti.start_verification(...)` (SpecStartRace)
    password_reset_tokens,
                  \* the password_reset_tokens table, a set of rows
    clock,        \* datetime.now(timezone.utc), in hours
    reset_log     \* for each user the last step of the password-reset flow
                  \* that succeeded for them: "none", "requested",
                  \* "verified", "reset" or "changed"

vars == <<users, kyc, environment, resp, inflight, environ, starts,
          password_reset_tokens, clock, reset_log>>

\* the state of the password-reset flow
auth == <<password_reset_tokens, clock, reset_log>>

\* the state that a KYC handler run in one step leaves alone
settings == <<environment, environ, starts, auth>>

\* rows of the users table; NoSuchUser is an id without a row
Users == {"u1", "u2"}
NoSuchUser == "u0"
UserIds == Users \cup {NoSuchUser}

\* User.get_by_id : the row or None; the query respects soft deletes
User_get_by_id(us, user_id) ==
    IF user_id \in DOMAIN us /\ ~us[user_id].is_deleted
    THEN <<us[user_id]>>
    ELSE <<>>

\* User.update(db, id, updates) for one boolean column
User_update(us, user_id, field, value) ==
    IF User_get_by_id(us, user_id) # <<>>
    THEN [us EXCEPT ![user_id] = [@ EXCEPT ![field] = value]]
    ELSE us

\* User.update(db, id, updates): the columns named in updates are set
User_update_all(us, user_id, updates) ==
    IF User_get_by_id(us, user_id) # <<>>
    THEN [us EXCEPT ![user_id] =
              [k \in DOMAIN @ |-> IF k \in DOMAIN updates
                                  THEN updates[k] ELSE @[k]]]
    ELSE us

\* User.delete(db, id): a soft delete, deleted_at is set
User_delete(us, user_id) ==
    IF User_get_by_id(us, user_id) # <<>>
    THEN [us EXCEPT ![user_id].is_deleted = TRUE]
    ELSE us

\* hash_password is bcrypt with a salt and verify_password checks a plain
\* password against a hash: a hash is not the password, and it verifies
\* exactly the password it was made from
hash_password(password) == [bcrypt |-> password]
verify_password(password, hashed_password) == hashed_password.bcrypt = password

\* KYCVerification.provider_response is a Text column: json.dumps(d) is a
\* str holding the document d, json.loads gives the document back
json_dumps(d) == [type |-> "str", doc |-> d]
json_loads(s) == s.doc
\* `.get(key)` exists on a dict only; on a str it raises AttributeError
has_get(v) == v.type = "dict"

\* the keys of provider_response that the model keeps
EmptyDoc == [retry_info |-> <<>>, auto_retry |-> <<>>, webhook_data |-> FALSE]

\* uuid.uuid4().hex[:8] together with the timestamp: a value not used before
fresh_hex(table) == ToString(Len(table) + 1)

\* KYCVerification.create : append a row (submitted_at = now, reviewed_at NULL)
KYCVerification_create(table, user_id, reference, status, provider_response) ==
    Append(table, [user_id |-> user_id, reference |-> reference,
                   status |-> status, reviewed_at |-> FALSE,
                   provider_response |-> provider_response])

\* KYCVerification.update(db, id, {status, reviewed_at, provider_response})
KYCVerification_update(table, i, status, provider_response) ==
    [table EXCEPT ![i] = [@ EXCEPT !.status = status,
                                   !.reviewed_at = TRUE,
                                   !.provider_response = provider_response]]

\* KYCRepository.find_pending_verification_by_user : the rows `.first()` may
\* return (no ORDER BY: any matching row)
find_pending_verification_by_user(table, user_id) ==
    {i \in DOMAIN table : table[i].user_id = user_id
                          /\ table[i].status \in {"initiated", "pending"}}

\* KYCRepository.find_by_reference (reference is UNIQUE)
find_by_reference(table, reference) ==
    {i \in DOMAIN table : table[i].reference = reference}

\* the query without its user_id filter
get_user_verifications_unfiltered(table, user_id) == DOMAIN table

\* KYCRepository.get_user_verifications : all rows of the user
get_user_verifications(table, user_id) ==
    {i \in DOMAIN table : table[i].user_id = user_id}

\* the check that never finds a user blocked
is_user_blocked_from_kyc_never(us, user_id) == FALSE

\* KYCService.is_user_blocked_from_kyc
is_user_blocked_from_kyc(us, user_id) ==
    LET user == User_get_by_id(us, user_id)
    IN  IF user /= <<>> THEN user[1].is_blocked ELSE FALSE

\* ------------------------------------------------- provider client (Shufti)
\* config.shufti_secret_key, and a key that is not the configured one
SecretKey == "secret"
OtherKey == "not-the-secret"

\* hashlib.sha256(payload_str + sha256(secret_key)).hexdigest(): SHA-256 is
\* taken as collision free, so the digest is named by what was hashed; the
\* digest is 64 lower-case hex characters
sha256_hexdigest(payload, key) ==
    [len |-> 64, hashed |-> <<payload>>, key |-> key, upper |-> FALSE]

\* str.lower() of a signature
lower(signature) == [signature EXCEPT !.upper = FALSE]

\* verify_webhook with the development bypass taken in every environment
verify_webhook_bypass(payload, signature, env) ==
    IF signature.len = 0 \/ signature.len < MinSignatureLen
    THEN FALSE
    ELSE TRUE

\* ShuftiService.verify_webhook(payload, signature)
verify_webhook(payload, signature, env) ==
    IF signature.len = 0 \/ signature.len < MinSignatureLen
    THEN FALSE
    ELSE LET calculated_signature == sha256_hexdigest(payload, SecretKey)
             is_valid == lower(calculated_signature) = lower(signature)
         IN  IF ~is_valid /\ env = "development" THEN TRUE ELSE is_valid

\* KYCConfig.supported_countries (the default list holds "US"; "XX" stands
\* for a code that is not in it)
supported_countries == {"US"}

\* ------------------------------------------------------------ KYC service
\* outcome of a handler: the tables after it, the HTTP status, the returned
\* reference and the error detail
Outcome(us, table, code, reference, detail) ==
    [users |-> us, kyc |-> table, code |-> code, reference |-> reference,
     detail |-> detail, provider_called |-> FALSE]

\* the same outcome after `await shufti.start_verification(...)` was reached
Called(outcome) == [outcome EXCEPT !.provider_called = TRUE]

\* KYCService._get_status_from_result
_get_status_from_result(result) ==
    IF result.event /= <<>> /\ Len(result.event) >= 2
    THEN result.event[2]
    ELSE "initiated"

\* the propagation that marks the user verified whatever the status
_update_user_verification_status_always(us, user_id, kyc_status) ==
    User_update(us, user_id, "is_verified", TRUE)

\* KYCService._update_user_verification_status
_update_user_verification_status(us, user_id, kyc_status) ==
    LET user == User_get_by_id(us, user_id)
        should_be_verified == (kyc_status = "verified")
    IN  IF user = <<>> THEN us
        ELSE IF user[1].is_verified /= should_be_verified
             THEN User_update(us, user_id, "is_verified", should_be_verified)
             ELSE us

\* KYCService.start_verification from `await shufti.start_verification(...)`
\* on: provider is what the call gives (the reference, made before the
\* call, is a value that no other request has)
start_verification_resumed(us, table, user_id, provider) ==
    LET reference == <<"KYC", user_id, fresh_hex(table)>>
    IN  IF ~provider.ok
        THEN IF provider.raises = "KYCError"
             THEN \* except KYCError -> 400
                  Called(Outcome(us, table, 400, <<>>, "KYC verification failed"))
             ELSE \* except Exception -> 500
                  Called(Outcome(us, table, 500, <<>>,
                                 "Failed to start KYC verification"))
        ELSE Called(Outcome(us,
                     KYCVerification_create(
                         table, user_id, reference,
                         _get_status_from_result(provider),
                         json_dumps(EmptyDoc)),
                     200, reference, ""))

\* KYCService.start_verification(request, current_user, db); provider is the
\* result of ShuftiService.start_verification
start_verification(us, table, user_id, provider) ==
    IF is_user_blocked_from_kyc(us, user_id)
    THEN Outcome(us, table, 403, <<>>, "KYC verification is blocked")
    ELSE start_verification_resumed(us, table, user_id, provider)

\* KYCService.start_verification_by_user_id
start_verification_by_user_id(us, table, user_id, provider) ==
    LET user == User_get_by_id(us, user_id)
        existing_verification == find_pending_verification_by_user(table, user_id)
    IN  IF user = <<>>
        THEN Outcome(us, table, 404, <<>>, "User not found")
        ELSE IF is_user_blocked_from_kyc(us, user_id)
        THEN Outcome(us, table, 403, <<>>, "KYC verification is blocked")
        ELSE IF ~user[1].profile_complete
        THEN Outcome(us, table, 400, <<>>, "User profile incomplete")
        ELSE IF existing_verification /= {}
        THEN \* existing_verification.provider_response.get("verification_url")
             IF \A i \in existing_verification : has_get(table[i].provider_response)
             THEN LET i == CHOOSE j \in existing_verification : TRUE
                  IN  Outcome(us, table, 200, table[i].reference, "")
             ELSE \* AttributeError -> except Exception -> 500
                  Outcome(us, table, 500, <<>>, "Failed to start KYC verification")
        ELSE IF user[1].country \notin supported_countries
        THEN \* KYCRequest(...) raises ValidationError -> except Exception -> 500
             Outcome(us, table, 500, <<>>, "Failed to start KYC verification")
        ELSE start_verification(us, table, user_id, provider)

\* KYCService.start_retry_verification with the endpoint start_retry, which
\* turns {"success": False} into a 400; i is the row `.first()` returned
start_retry_verification(us, table, user_id, provider, i) ==
    IF is_user_blocked_from_kyc(us, user_id)
    THEN Outcome(us, table, 400, <<>>, "KYC verification is blocked")
    ELSE IF i = 0
    THEN Outcome(us, table, 400, <<>>, "No retry verification found")
    ELSE IF User_get_by_id(us, user_id) = <<>>
    THEN Outcome(us, table, 400, <<>>, "User not found")
    ELSE IF ~provider.ok
    THEN Called(Outcome(us, table, 400, <<>>,
                        "Failed to start retry verification"))
    ELSE Called(Outcome(us,
                 [table EXCEPT ![i] =
                     [@ EXCEPT !.status = "pending",
                               !.provider_response =
                                   json_dumps([EmptyDoc EXCEPT
                                       !.retry_info =
                                           json_loads(table[i].provider_response).retry_info])]],
                 200, table[i].reference, ""))

\* the retry query without its status filter
retry_first_of_user(table, user_id) ==
    LET rows == {i \in DOMAIN table : table[i].user_id = user_id}
    IN  IF rows = {} THEN {0} ELSE rows

\* the rows that the retry_pending query of start_retry_verification may
\* return with `.first()`; 0 stands for None
retry_pending_first(table, user_id) ==
    LET rows == {i \in DOMAIN table : table[i].user_id = user_id
                                      /\ table[i].status = "retry_pending"}
    IN  IF rows = {} THEN {0} ELSE rows

\* AdminService.block_user (the caller is an admin other than the target)
block_user(us, table, user_id, block_status) ==
    IF User_get_by_id(us, user_id) = <<>>
    THEN Outcome(us, table, 404, <<>>, "User not found")
    ELSE Outcome(User_update(us, user_id, "is_blocked", block_status),
                 table, 200, <<>>, "")

\* ------------------------------------------------------ webhook processing
\* str.startswith("verification.") / ("request.") on an event
startswith(event, prefix) == Len(event) >= 2 /\ event[1] = prefix

\* status_map of process_webhook
status_map(webhook_status) ==
    CASE webhook_status = "1" -> "verified"
      [] webhook_status = "0" -> "declined"
      [] webhook_status = "2" -> "pending"
      [] webhook_status = "3" -> "cancelled"
      [] OTHER -> "error"

\* the classification with the code map consulted before the event
new_status_of_map_first(event_type, webhook_status) ==
    IF webhook_status \in {"1", "0", "2", "3"} THEN status_map(webhook_status)
    ELSE IF event_type = <<"verification", "accepted">> THEN "verified"
    ELSE IF event_type = <<"verification", "declined">> THEN "declined"
    ELSE IF event_type = <<"verification", "cancelled">> THEN "cancelled"
    ELSE IF startswith(event_type, "verification") THEN "pending"
    ELSE IF startswith(event_type, "request") THEN "pending"
    ELSE "error"

\* the if / elif chain of process_webhook that gives new_status
new_status_of(event_type, webhook_status) ==
    IF event_type = <<"verification", "accepted">> THEN "verified"
    ELSE IF event_type = <<"verification", "declined">> THEN "declined"
    ELSE IF event_type = <<"verification", "cancelled">> THEN "cancelled"
    ELSE IF startswith(event_type, "verification") THEN "pending"
    ELSE IF event_type = <<"request", "pending">> THEN "pending"
    ELSE IF startswith(event_type, "request") THEN "pending"
    ELSE status_map(webhook_status)

\* retry_eligible_codes and retry_blocked_codes of process_webhook (the keys)
retry_eligible_codes ==
    {"SPDR03", "SPDR48", "SPDR89", "SPDR04", "SPDR05", "SPDR06", "SPDR07",
     "SPDR08", "SPDR19", "SPDR15", "SPFR01", "SPFR02", "SPFR03", "SPDR278",
     "SPDR01", "SPDR02", "SPFR10"}
retry_blocked_codes == {}

\* the loop where a blocked code counts only if no eligible code came first
RECURSIVE check_decline_codes_in_order(_, _, _, _, _)
check_decline_codes_in_order(decline_codes, k, should_retry, blocked, eligible) ==
    IF k > Len(decline_codes)
    THEN [should_retry |-> should_retry, retry_blocked |-> FALSE]
    ELSE IF decline_codes[k] \in blocked
    THEN [should_retry |-> should_retry, retry_blocked |-> ~should_retry]
    ELSE IF decline_codes[k] \in eligible
    THEN check_decline_codes_in_order(decline_codes, k + 1, TRUE, blocked, eligible)
    ELSE check_decline_codes_in_order(decline_codes, k + 1, should_retry, blocked,
                                      eligible)

\* the loop that takes every decline code as retry-eligible
check_decline_codes_any(decline_codes, k, should_retry, blocked, eligible) ==
    [should_retry |-> should_retry \/ k <= Len(decline_codes), retry_blocked |-> FALSE]

\* the loop `for code in decline_codes` with its break, from position k on
RECURSIVE check_decline_codes(_, _, _, _, _)
check_decline_codes(decline_codes, k, should_retry, blocked, eligible) ==
    IF k > Len(decline_codes)
    THEN [should_retry |-> should_retry, retry_blocked |-> FALSE]
    ELSE IF decline_codes[k] \in blocked
    THEN [should_retry |-> should_retry, retry_blocked |-> TRUE]
    ELSE IF decline_codes[k] \in eligible
    THEN check_decline_codes(decline_codes, k + 1, TRUE, blocked, eligible)
    ELSE check_decline_codes(decline_codes, k + 1, should_retry, blocked, eligible)

\* retry_count taken over all the user's rows whatever their status
retry_count_of_all(table, user_id) ==
    Cardinality(get_user_verifications(table, user_id))

\* retry_count: the user's rows with status declined
retry_count_of(table, user_id) ==
    Cardinality({i \in get_user_verifications(table, user_id) :
                     table[i].status = "declined"})

\* the decline branch of process_webhook (lines 525-722) for row i: the
\* tables and existing_data after it
decline_branch(us, table, i, existing_data, webhook_data, blocked) ==
    LET decline_codes == IF webhook_data.declined_codes = <<>> THEN <<>>
                         ELSE webhook_data.declined_codes[1]
        decision == check_decline_codes(decline_codes, 1, FALSE, blocked,
                                        retry_eligible_codes)
        verification == table[i]
        retry_count == retry_count_of(table, verification.user_id)
        user == User_get_by_id(us, verification.user_id)
        retry_reference == <<"RETRY", ToString(retry_count + 1)>>
                           \o verification.reference \o <<fresh_hex(table)>>
    IN  IF ~(decision.should_retry /\ ~decision.retry_blocked)
        THEN [users |-> us, kyc |-> table, existing_data |-> existing_data]
        ELSE IF retry_count < MaxRetryThreshold
        THEN IF user = <<>>
             THEN [users |-> us, kyc |-> table, existing_data |-> existing_data]
             ELSE [users |-> us,
                   kyc |-> KYCVerification_create(
                       table, verification.user_id, retry_reference,
                       "retry_pending",
                       json_dumps([EmptyDoc EXCEPT !.retry_info =
                           <<[is_retry |-> TRUE,
                              attempt_number |-> retry_count + 1,
                              original_reference |-> verification.reference,
                              decline_reasons |-> decline_codes]>>])),
                   existing_data |-> [existing_data EXCEPT !.auto_retry =
                       <<[needed |-> TRUE, retry_reference |-> retry_reference,
                          attempt_number |-> retry_count + 1]>>]]
        ELSE [users |-> IF user /= <<>> /\ ~user[1].is_blocked
                        THEN User_update(us, verification.user_id, "is_blocked", TRUE)
                        ELSE us,
              kyc |-> table,
              existing_data |-> [existing_data EXCEPT !.auto_retry =
                  <<[needed |-> FALSE, retry_reference |-> <<>>,
                     attempt_number |-> 0]>>]]

\* the except clauses of process_webhook: the status that a raised exception
\* of the given class ends as (HTTPException is an Exception, and there is
\* no `except HTTPException: raise` clause)
process_webhook_except(exception) ==
    CASE exception = "JSONDecodeError" -> 400
      [] exception = "KYCWebhookError" -> 400
      [] OTHER -> 500

\* KYCService.process_webhook(webhook_data, "", db) with the given table of
\* retry-blocked codes
process_webhook_policy(us, table, webhook_data, blocked) ==
    LET reference == webhook_data.reference
        found == find_by_reference(table, reference)
    IN  IF reference = <<>>
        THEN \* raise HTTPException(400, "Missing reference in webhook data")
             Outcome(us, table, process_webhook_except("HTTPException"), <<>>,
                     "Failed to process webhook")
        ELSE IF found = {}
        THEN \* raise HTTPException(404, "Verification not found")
             Outcome(us, table, process_webhook_except("HTTPException"), <<>>,
                     "Failed to process webhook")
        ELSE
        LET i == CHOOSE j \in found : TRUE
            verification == table[i]
            new_status == new_status_of(webhook_data.event,
                                        webhook_data.verification_status)
            existing_data == [json_loads(verification.provider_response)
                                 EXCEPT !.webhook_data = TRUE]
            after == IF new_status = "declined"
                        /\ (webhook_data.declined_reason /= <<>>
                            \/ webhook_data.declined_codes /= <<>>)
                     THEN decline_branch(us, table, i, existing_data,
                                         webhook_data, blocked)
                     ELSE [users |-> us, kyc |-> table,
                           existing_data |-> existing_data]
            updated == KYCVerification_update(after.kyc, i, new_status,
                                              json_dumps(after.existing_data))
        IN  Outcome(IF new_status \in {"verified", "declined"}
                    THEN _update_user_verification_status(
                             after.users, verification.user_id, new_status)
                    ELSE after.users,
                    updated, 200, reference, "")

\* KYCService.process_webhook
process_webhook(us, table, webhook_data) ==
    process_webhook_policy(us, table, webhook_data, retry_blocked_codes)

\* signature = "test_signature" of process_webhook_request (14 characters)
test_signature == [len |-> 14, hashed |-> <<>>, key |-> "", upper |-> FALSE]

\* KYCService.process_webhook_request(payload, signature, db); a payload is
\* the raw body: empty, not JSON, or the JSON of a webhook_data object
process_webhook_request(us, table, payload, signature, env) ==
    LET is_development == (env = "development")
        sig == IF signature.len = 0 THEN test_signature ELSE signature
        signature_valid == verify_webhook(payload, sig, env)
    IN  IF payload.kind = "empty"
        THEN Outcome(us, table, 400, <<>>, "Empty webhook payload")
        ELSE IF signature.len = 0 /\ ~is_development
        THEN Outcome(us, table, 400, <<>>, "Missing webhook signature")
        ELSE IF ~signature_valid /\ ~is_development
        THEN \* HTTPException(400) caught by `except Exception`, raised as 400
             Outcome(us, table, 400, <<>>, "Webhook processing error")
        ELSE IF payload.kind = "notjson"
        THEN Outcome(us, table, 400, <<>>, "Invalid JSON in webhook payload")
        ELSE process_webhook(us, table, payload.data)

\* ------------------------------------------------------------------ inputs
\* what ShuftiService() and ShuftiService.start_verification give: a result
\* with its event, or (ok = FALSE) an exception: a KYCError (provider error,
\* unsupported country, timeout, connection failure, configuration error),
\* or the AttributeError of `error.get` when the "error" of a non-200 body
\* is not an object, which none of its except clauses catches
ProviderResults ==
    {[ok |-> TRUE, event |-> <<"request", "pending">>, raises |-> ""],
     [ok |-> TRUE, event |-> <<>>, raises |-> ""],
     [ok |-> FALSE, event |-> <<>>, raises |-> "KYCError"],
     [ok |-> FALSE, event |-> <<>>, raises |-> "AttributeError"]}

\* webhook_data objects
WebhookData(references, events, statuses, reasons, codes) ==
    [reference : references, event : events, verification_status : statuses,
     declined_reason : reasons, declined_codes : codes]

NoData == [reference |-> <<>>, event |-> <<>>, verification_status |-> "",
           declined_reason |-> <<>>, declined_codes |-> <<>>]

\* references a webhook may carry: those of the rows, one that no row has,
\* and none
UnknownReference == <<"KYC", "u1", "0">>
ReferencesOf(table) ==
    {table[i].reference : i \in DOMAIN table} \cup {UnknownReference, <<>>}

\* a raw body that is the JSON of a webhook_data object, an empty body, and
\* a body that is not JSON
Json(data) == [kind |-> "json", data |-> data]
EmptyPayload == [kind |-> "empty", data |-> NoData]
NotJsonPayload == [kind |-> "notjson", data |-> NoData]

\* signature headers: none, a malformed short one, and for a payload the
\* right digest in lower and in upper case and the digest under another key
NoSignature == [len |-> 0, hashed |-> <<>>, key |-> "", upper |-> FALSE]
ShortSignature == [len |-> 4, hashed |-> <<>>, key |-> "", upper |-> FALSE]
ValidSignature(payload) == sha256_hexdigest(payload, SecretKey)
UpperSignature(payload) == [ValidSignature(payload) EXCEPT !.upper = TRUE]
ForgedSignature(payload) == sha256_hexdigest(payload, OtherKey)

\* decline code lists: none, an eligible code, a code of neither table
EligibleCode == "SPDR07"
UnlistedCode == "SPXX99"

\* the webhooks that the provider sends in the specification Spec: one per
\* outcome, each for every reference
CoreData(references) ==
    WebhookData(references,
                {<<"verification", "accepted">>, <<"verification", "cancelled">>,
                 <<"request", "pending">>},
                {""}, {<<>>}, {<<>>})
    \cup
    WebhookData(references, {<<"verification", "declined">>}, {""}, {<<>>},
                {<<>>, << <<EligibleCode>> >>, << <<UnlistedCode>> >>})

\* the requests to /kyc/webhook in the specification Spec: every webhook
\* above rightly signed; an accepted-webhook unsigned and with a forged
\* signature; an empty body and a body that is not JSON
CoreWebhookRequests(table) ==
    {<<Json(d), ValidSignature(Json(d))>> : d \in CoreData(ReferencesOf(table))}
    \cup
    UNION {{<<Json(d), NoSignature>>, <<Json(d), ForgedSignature(Json(d))>>} :
           d \in WebhookData(ReferencesOf(table),
                             {<<"verification", "accepted">>}, {""}, {<<>>}, {<<>>})}
    \cup
    {<<EmptyPayload, ValidSignature(EmptyPayload)>>,
     <<NotJsonPayload, ValidSignature(NotJsonPayload)>>}

\* ----------------------------------------------------------------- actions
NoResponse == [op |-> "none", user_id |-> NoSuchUser, code |-> 0,
               reference |-> <<>>, detail |-> ""]

\* a handler ran as operation op for user_id (NoSuchUser for a webhook) with
\* outcome out; cap bounds the rows of the table
Served(op, user_id, out, cap) ==
    /\ Len(out.kyc) <= cap
    /\ users' = out.users
    /\ kyc' = out.kyc
    /\ resp' = [op |-> op, user_id |-> user_id, code |-> out.code,
                reference |-> out.reference, detail |-> out.detail]
    /\ UNCHANGED settings

\* the same while no webhook request is processed step by step
Handled(op, user_id, out, cap) ==
    /\ Served(op, user_id, out, cap)
    /\ UNCHANGED inflight

\* the locals of a webhook request: its position, the row it found, the
\* status it classified, existing_data and retry_count
Workers == {"w1", "w2"}
IdleWorker == [pc |-> "idle", i |-> 0, new_status |-> "",
               existing_data |-> EmptyDoc, should_retry |-> FALSE,
               retry_count |-> 0]
Quiet == [base |-> <<>>, data |-> NoData, delivered |-> 0,
          w |-> [x \in Workers |-> IdleWorker]]

\* a request to /kyc/start: not running, or suspended for user_id
IdleStart == [pc |-> "idle", user_id |-> NoSuchUser]
NoStarts == [w \in Workers |-> IdleStart]

\* the environment variables of a deployment in production: every variable
\* that get_kyc_config requires is set and valid
ProductionEnviron ==
    [SHUFTI_CLIENT_ID |-> "client-a", SHUFTI_SECRET_KEY |-> SecretKey,
     VERIFICATION_TTL |-> "3600", ENVIRONMENT |-> "production"]

\* a row of the users table as registration creates it
RegisteredUser == [is_verified |-> FALSE, is_blocked |-> FALSE,
                   profile_complete |-> TRUE, country |-> "US",
                   is_admin |-> FALSE, is_deleted |-> FALSE,
                   first_name |-> "Ada", email |-> "",
                   password |-> hash_password("old-password")]
\* the row of user u: the email column is unique
Email == [u \in Users |-> u \o "@swaphubu.io"]
Registered(u) == [RegisteredUser EXCEPT !.email = Email[u]]

Init ==
    /\ users = [u \in Users |-> Registered(u)]
    /\ kyc = <<>>
    /\ environment = "production"
    /\ resp = NoResponse
    /\ inflight = Quiet
    /\ environ = ProductionEnviron
    /\ starts = NoStarts
    /\ password_reset_tokens = {}
    /\ clock = 0
    /\ reset_log = [u \in Users |-> "none"]

\* POST /kyc/start
StartVerification ==
    \E user_id \in UserIds, provider \in ProviderResults :
        Handled("start", user_id,
                start_verification_by_user_id(users, kyc, user_id, provider),
                MaxRecords)

\* POST /kyc/retry/{user_id}
StartRetry ==
    \E user_id \in UserIds, provider \in ProviderResults :
        \E i \in retry_pending_first(kyc, user_id) :
            Handled("retry", user_id,
                    start_retry_verification(users, kyc, user_id, provider, i),
                    MaxRecords)

\* POST /kyc/webhook
Webhook ==
    \E r \in CoreWebhookRequests(kyc) :
        Handled("webhook", NoSuchUser,
                process_webhook_request(users, kyc, r[1], r[2], environment),
                MaxRecords)

\* admin block / unblock
BlockUser ==
    \E user_id \in UserIds, block_status \in BOOLEAN :
        Handled("block", user_id,
                block_user(users, kyc, user_id, block_status), MaxRecords)

Next == StartVerification \/ StartRetry \/ Webhook \/ BlockUser

Spec == Init /\ [][Next]_vars

\* ------------------------------------------- the decline / retry scenario
\* One user goes through a verification with nothing else happening: the
\* verification is started, the provider declines it with an eligible code,
\* the user starts the retry that was scheduled, and so on until no row is
\* left to act on.

\* decline code lists that hold an eligible code (no code is retry-blocked)
EligibleLists ==
    {<<EligibleCode>>, <<EligibleCode, UnlistedCode>>, <<UnlistedCode, "SPFR10">>,
     <<"SPDR03">>, <<"SPFR02", "SPDR01", "SPDR278">>}

\* the rows that wait for the provider's verdict
awaiting(table) ==
    {i \in DOMAIN table : table[i].status \in {"initiated", "pending"}}

\* POST /kyc/start by a user while the table is empty
ScenarioStart ==
    /\ kyc = <<>>
    /\ \E user_id \in Users, provider \in {r \in ProviderResults : r.ok} :
           Handled("start", user_id,
                   start_verification_by_user_id(users, kyc, user_id, provider),
                   MaxScenarioRecords)

\* POST /kyc/webhook: the provider declines the awaiting row with a list
\* that holds an eligible code
ScenarioDecline ==
    \E i \in awaiting(kyc) :
        \E d \in WebhookData({kyc[i].reference}, {<<"verification", "declined">>},
                             {"0", "1"}, {<<>>, <<"reason">>},
                             {<<codes>> : codes \in EligibleLists}) :
            \E signature \in {ValidSignature(Json(d)), UpperSignature(Json(d))} :
                Handled("webhook", NoSuchUser,
                        process_webhook_request(users, kyc, Json(d), signature,
                                                environment),
                        MaxScenarioRecords)

\* POST /kyc/retry/{user_id} for the scheduled retry
ScenarioRetry ==
    \E user_id \in Users, provider \in {r \in ProviderResults : r.ok} :
        \E i \in retry_pending_first(kyc, user_id) \ {0} :
            Handled("retry", user_id,
                    start_retry_verification(users, kyc, user_id, provider, i),
                    MaxScenarioRecords)

NextScenario == ScenarioStart \/ ScenarioDecline \/ ScenarioRetry

SpecScenario == Init /\ [][NextScenario]_vars

\* --------------------------------------- webhook requests step by step
\* process_webhook reads and writes the database in separate statements and
\* every create / update commits on its own, so requests that run at the
\* same time (worker processes, threadpool endpoints) see and overwrite
\* each other's writes between these steps.

\* largest number of rows of kyc_verifications that SpecConcurrent creates
MaxRaceRecords == 3
\* largest number of webhook deliveries in SpecConcurrent
MaxDeliveries == 2

\* the webhooks delivered in SpecConcurrent
RaceData(table) ==
    WebhookData({table[i].reference : i \in DOMAIN table} \cup {UnknownReference},
                {<<"verification", "accepted">>, <<"request", "pending">>},
                {""}, {<<>>}, {<<>>})
    \cup
    WebhookData({table[i].reference : i \in DOMAIN table},
                {<<"verification", "declined">>}, {""}, {<<>>},
                {<< <<EligibleCode>> >>})

\* no request is between its first and its last step
Settled == \A x \in Workers : inflight.w[x].pc \in {"idle", "done"}

\* request w moves on with the locals given
Step(w, locals) == inflight' = [inflight EXCEPT !.w[w] = locals]

\* request w answers and ends
Answer(w, code, reference, detail) ==
    /\ Step(w, [IdleWorker EXCEPT !.pc = "done"])
    /\ resp' = [op |-> "webhook", user_id |-> NoSuchUser, code |-> code,
                reference |-> reference, detail |-> detail]

\* POST /kyc/start by the first user to ask
RaceStart ==
    /\ kyc = <<>>
    /\ \E user_id \in Users, provider \in {r \in ProviderResults : r.ok} :
           Served("start", user_id,
                  start_verification_by_user_id(users, kyc, user_id, provider),
                  MaxRaceRecords)
    /\ inflight' = Quiet

\* POST /kyc/webhook: the provider delivers a rightly signed webhook once,
\* or twice at the same time; process_webhook_request hands it on
Deliver ==
    /\ Settled
    /\ inflight.delivered < MaxDeliveries
    /\ \E d \in RaceData(kyc), W \in {{"w1"}, Workers} :
           inflight' = [base |-> <<users, kyc>>, data |-> d,
                        delivered |-> inflight.delivered + 1,
                        w |-> [x \in Workers |->
                                  IF x \in W THEN [IdleWorker EXCEPT !.pc = "read"]
                                  ELSE IdleWorker]]
    /\ UNCHANGED <<users, kyc, settings, resp>>

\* process_webhook lines 463-589: find the row, classify, load
\* existing_data, decide on the decline codes
WhRead(w) ==
    /\ inflight.w[w].pc = "read"
    /\ LET d == inflight.data
           found == find_by_reference(kyc, d.reference)
       IN  IF d.reference = <<>> \/ found = {}
           THEN /\ Answer(w, process_webhook_except("HTTPException"), <<>>,
                          "Failed to process webhook")
                /\ UNCHANGED <<users, kyc, settings>>
           ELSE LET i == CHOOSE j \in found : TRUE
                    new_status == new_status_of(d.event, d.verification_status)
                    decline_codes == IF d.declined_codes = <<>> THEN <<>>
                                     ELSE d.declined_codes[1]
                    decision == check_decline_codes(decline_codes, 1, FALSE,
                                                    retry_blocked_codes,
                                                    retry_eligible_codes)
                    should_retry ==
                        /\ new_status = "declined"
                        /\ d.declined_reason /= <<>> \/ d.declined_codes /= <<>>
                        /\ decision.should_retry /\ ~decision.retry_blocked
                IN  /\ Step(w, [pc |-> IF should_retry THEN "count" ELSE "update",
                                i |-> i, new_status |-> new_status,
                                existing_data |->
                                    [json_loads(kyc[i].provider_response)
                                        EXCEPT !.webhook_data = TRUE],
                                should_retry |-> should_retry,
                                retry_count |-> 0])
                    /\ UNCHANGED <<users, kyc, settings, resp>>

\* lines 591-598: count the user's declined rows
WhCount(w) ==
    /\ inflight.w[w].pc = "count"
    /\ LET me == inflight.w[w]
           retry_count == retry_count_of(kyc, kyc[me.i].user_id)
       IN  Step(w, [me EXCEPT !.retry_count = retry_count,
                              !.pc = IF retry_count < MaxRetryThreshold
                                     THEN "retry" ELSE "block"])
    /\ UNCHANGED <<users, kyc, settings, resp>>

\* lines 602-679: create the retry_pending row (it commits) and mark
\* existing_data
WhCreateRetry(w) ==
    /\ inflight.w[w].pc = "retry"
    /\ Len(kyc) < MaxRaceRecords
    /\ LET me == inflight.w[w]
           verification == kyc[me.i]
           decline_codes == inflight.data.declined_codes[1]
           retry_reference == <<"RETRY", ToString(me.retry_count + 1)>>
                              \o verification.reference \o <<fresh_hex(kyc)>>
       IN  IF User_get_by_id(users, verification.user_id) = <<>>
           THEN /\ Step(w, [me EXCEPT !.pc = "update"])
                /\ UNCHANGED kyc
           ELSE /\ kyc' = KYCVerification_create(
                              kyc, verification.user_id, retry_reference,
                              "retry_pending",
                              json_dumps([EmptyDoc EXCEPT !.retry_info =
                                  <<[is_retry |-> TRUE,
                                     attempt_number |-> me.retry_count + 1,
                                     original_reference |-> verification.reference,
                                     decline_reasons |-> decline_codes]>>]))
                /\ Step(w, [me EXCEPT
                        !.pc = "update",
                        !.existing_data.auto_retry =
                            <<[needed |-> TRUE, retry_reference |-> retry_reference,
                               attempt_number |-> me.retry_count + 1]>>])
    /\ UNCHANGED <<users, settings, resp>>

\* lines 697-715: mark existing_data and block the user (it commits)
WhBlock(w) ==
    /\ inflight.w[w].pc = "block"
    /\ LET me == inflight.w[w]
           user_id == kyc[me.i].user_id
           user == User_get_by_id(users, user_id)
       IN  /\ users' = IF user /= <<>> /\ ~user[1].is_blocked
                       THEN User_update(users, user_id, "is_blocked", TRUE)
                       ELSE users
           /\ Step(w, [me EXCEPT
                   !.pc = "update",
                   !.existing_data.auto_retry =
                       <<[needed |-> FALSE, retry_reference |-> <<>>,
                          attempt_number |-> 0]>>])
    /\ UNCHANGED <<kyc, settings, resp>>

\* lines 731-739: KYCVerification.update of the row (it commits)
WhUpdate(w) ==
    /\ inflight.w[w].pc = "update"
    /\ LET me == inflight.w[w]
       IN  /\ kyc' = KYCVerification_update(kyc, me.i, me.new_status,
                                            json_dumps(me.existing_data))
           /\ IF me.new_status \in {"verified", "declined"}
              THEN /\ Step(w, [me EXCEPT !.pc = "propagate"])
                   /\ UNCHANGED resp
              ELSE Answer(w, 200, kyc[me.i].reference, "")
    /\ UNCHANGED <<users, settings>>

\* lines 751-766: _update_user_verification_status (it commits), return
WhPropagate(w) ==
    /\ inflight.w[w].pc = "propagate"
    /\ LET me == inflight.w[w]
       IN  /\ users' = _update_user_verification_status(
                           users, kyc[me.i].user_id, me.new_status)
           /\ Answer(w, 200, kyc[me.i].reference, "")
    /\ UNCHANGED <<kyc, settings>>

\* KYCService.get_verification_status_by_user_id: the status and
\* is_completed of the user's latest row (None when the user has no row)
get_verification_status_by_user_id(us, table, user_id) ==
    LET verifications == get_user_verifications(table, user_id)
    IN  IF User_get_by_id(us, user_id) = <<>> THEN [code |-> 404, body |-> <<>>]
        ELSE IF verifications = {} THEN [code |-> 200, body |-> <<>>]
        ELSE LET latest == CHOOSE i \in verifications :
                               \A j \in verifications : j <= i
             IN  [code |-> 200,
                  body |-> <<[reference |-> table[latest].reference,
                              status |-> table[latest].status,
                              is_completed |-> table[latest].reviewed_at]>>]

\* GET /kyc/status/{user_id}, served in the threadpool at any moment
Observe ==
    /\ \E user_id \in Users :
           LET got == get_verification_status_by_user_id(users, kyc, user_id)
           IN  /\ got.body /= <<>>
               /\ resp' = [op |-> "status", user_id |-> user_id, code |-> got.code,
                           reference |-> got.body[1].reference,
                           detail |-> got.body[1].status]
    /\ UNCHANGED <<users, kyc, settings, inflight>>

NextConcurrent ==
    \/ RaceStart
    \/ Deliver
    \/ \E w \in Workers : WhRead(w)
    \/ \E w \in Workers : WhCount(w)
    \/ \E w \in Workers : WhCreateRetry(w)
    \/ \E w \in Workers : WhBlock(w)
    \/ \E w \in Workers : WhUpdate(w)
    \/ \E w \in Workers : WhPropagate(w)
    \/ Observe

SpecConcurrent == Init /\ [][NextConcurrent]_vars

\* ------------------------------------------------------------------ claims
\* the rows of user u that have the given status
rows_with(table, u, status) ==
    {i \in DOMAIN table : table[i].user_id = u /\ table[i].status = status}

\* C1: for a user who is not blocked, the declines of the initial record, of
\* the first retry and of the second retry, each with an eligible code and
\* no blocked code: the first and the second decline each create exactly
\* one retry_pending row and leave the user unblocked, the third creates no
\* row, and after it all three rows are declined and is_blocked is true.
C1_ThreeDeclines ==
    [][resp'.op = "webhook" =>
        \E u \in Users :
            LET before == Cardinality(rows_with(kyc, u, "declined"))
                n == Len(kyc)
            IN  /\ resp'.code = 200
                /\ Cardinality(rows_with(kyc', u, "declined")) = before + 1
                /\ before \in {0, 1} =>
                       /\ Len(kyc') = n + 1
                       /\ kyc'[n + 1].status = "retry_pending"
                       /\ kyc'[n + 1].user_id = u
                       /\ SubSeq(kyc', 1, n) =
                              [kyc EXCEPT ![n] = kyc'[n]]
                       /\ ~users'[u].is_blocked
                /\ before = 2 =>
                       /\ Len(kyc') = n
                       /\ n = 3
                       /\ \A i \in DOMAIN kyc' : /\ kyc'[i].status = "declined"
                                                 /\ kyc'[i].user_id = u
                       /\ users'[u].is_blocked
                /\ before <= 2]_vars

C1_Witness ==
    \E u \in Users :
        /\ resp.op = "webhook"
        /\ resp.code = 200
        /\ Len(kyc) = 3
        /\ \A i \in DOMAIN kyc : kyc[i].status = "declined" /\ kyc[i].user_id = u
        /\ users[u].is_blocked

\* webhook bodies for the rows of the table, for an unknown reference and
\* for no reference: an accepted and a declined verification each, and the
\* two bodies that carry no webhook
ClaimPayloads(table) ==
    {Json(d) : d \in WebhookData(ReferencesOf(table),
                                 {<<"verification", "accepted">>}, {""}, {<<>>}, {<<>>})}
    \cup
    {Json(d) : d \in WebhookData(ReferencesOf(table),
                                 {<<"verification", "declined">>}, {""}, {<<>>},
                                 {<< <<EligibleCode>> >>})}
    \cup {EmptyPayload, NotJsonPayload}

\* signatures that do not verify for the payload: none, a malformed one, the
\* digest under another key, and the right digest of another body
BadSignatures(payload) ==
    {NoSignature, ShortSignature, ForgedSignature(payload)}
    \cup {ValidSignature(q) : q \in {Json(NoData), EmptyPayload} \ {payload}}

\* C2: in production mode process_webhook_request with a missing signature
\* or one that does not verify ends in an error and changes no row of
\* kyc_verifications and no user.
C2_BadSignatureRejected ==
    environment = "production" =>
        \A payload \in ClaimPayloads(kyc) :
            \A signature \in BadSignatures(payload) :
                LET out == process_webhook_request(users, kyc, payload, signature,
                                                   environment)
                IN  /\ out.code >= 400
                    /\ out.kyc = kyc
                    /\ out.users = users

C2_Witness ==
    /\ environment = "production"
    /\ resp.op = "webhook"
    /\ resp.code = 400
    /\ resp.detail = "Webhook processing error"
    /\ awaiting(kyc) /= {}

\* the events and verification_status values of the webhooks in the claims:
\* every branch of the classification, with a status of the code map and
\* one outside it
ClaimEvents ==
    {<<"verification", "accepted">>, <<"verification", "declined">>,
     <<"verification", "cancelled">>, <<"verification", "status", "changed">>,
     <<"request", "pending">>, <<"request", "timeout">>, <<"review", "pending">>,
     <<"verification">>, <<>>}
ClaimStatuses == {"1", "0", "2", "3", "9", ""}

\* the webhooks of the claims for the given references: every event with
\* every verification_status and no decline detail, and the declines by
\* event and by code map with a decline code of each kind
ClaimWebhooks(references) ==
    WebhookData(references, ClaimEvents, ClaimStatuses, {<<>>}, {<<>>})
    \cup
    WebhookData(references, {<<"verification", "declined">>, <<>>}, {"0"}, {<<>>},
                {<< <<EligibleCode>> >>, << <<UnlistedCode>> >>})

\* C3: a rightly signed webhook whose reference matches no row is rejected
\* with HTTP 404 and creates no row and changes no row and no user.
C3_UnknownReference404 ==
    \A d \in WebhookData({UnknownReference}, ClaimEvents, {"", "1"}, {<<>>},
                         {<<>>, << <<EligibleCode>> >>}) :
        LET out == process_webhook_request(users, kyc, Json(d),
                                           ValidSignature(Json(d)), environment)
        IN  /\ out.code = 404
            /\ out.kyc = kyc
            /\ out.users = users

\* the rows of user u that are initiated, pending or retry_pending
non_terminal(table, u) ==
    rows_with(table, u, "initiated") \cup rows_with(table, u, "pending")
        \cup rows_with(table, u, "retry_pending")

\* C4: in every reachable state each user has at most one row whose status
\* is initiated, pending or retry_pending.
C4_AtMostOneNonTerminal ==
    \A u \in Users : Cardinality(non_terminal(kyc, u)) <= 1

\* C5: for a user who has a row in status initiated or pending,
\* start_verification_by_user_id succeeds, returns the reference of that
\* row, calls the provider not at all and creates no row.
C5_ExistingReturned ==
    \A u \in Users :
        (~users[u].is_blocked
         /\ rows_with(kyc, u, "initiated") \cup rows_with(kyc, u, "pending") /= {}) =>
            \A provider \in ProviderResults :
                LET out == start_verification_by_user_id(users, kyc, u, provider)
                IN  /\ out.code = 200
                    /\ \E i \in rows_with(kyc, u, "initiated")
                                    \cup rows_with(kyc, u, "pending") :
                           out.reference = kyc[i].reference
                    /\ ~out.provider_called
                    /\ out.kyc = kyc

\* the classification as C6 words it
C6_Classification(event, verification_status) ==
    IF Len(event) >= 2 /\ Head(event) = "verification"
    THEN IF Tail(event) = <<"accepted">> THEN "verified"
         ELSE IF Tail(event) = <<"declined">> THEN "declined"
         ELSE IF Tail(event) = <<"cancelled">> THEN "cancelled"
         ELSE "pending"
    ELSE IF Len(event) >= 2 /\ Head(event) = "request" THEN "pending"
    ELSE IF verification_status = "1" THEN "verified"
    ELSE IF verification_status = "0" THEN "declined"
    ELSE IF verification_status = "2" THEN "pending"
    ELSE IF verification_status = "3" THEN "cancelled"
    ELSE "error"

\* C6: for every webhook with a known reference the status written to the
\* row is the classification of (event, verification_status) in the order
\* accepted, declined, cancelled, other verification.*, request.*, code
\* map, error; the previous status of the row plays no part.
C6_StatusWritten ==
    \A i \in DOMAIN kyc :
        \A d \in ClaimWebhooks({kyc[i].reference}) :
            LET out == process_webhook_request(users, kyc, Json(d),
                                               ValidSignature(Json(d)), environment)
            IN  /\ out.code = 200
                /\ out.kyc[i].status =
                       C6_Classification(d.event, d.verification_status)

\* a row that a webhook declined and scheduled a retry for was written
\* verified by the webhook handled last
C6_Witness ==
    /\ resp.op = "webhook"
    /\ resp.code = 200
    /\ \E i \in DOMAIN kyc :
           /\ kyc[i].reference = resp.reference
           /\ kyc[i].status = "verified"
           /\ json_loads(kyc[i].provider_response).auto_retry /= <<>>

\* tables of retry-blocked codes that the extension point of process_webhook
\* may be given: the three entries that the source keeps commented out
\* (each is also an eligible code), and a code that is in no other table
BlockedTables == {{"SPDR01", "SPDR02", "SPFR10"}, {"SPBL01"}}

\* decline code lists that hold a code of the blocked table, alone and with
\* eligible and unlisted codes before and after it
ListsWithBlocked(blocked) ==
    UNION {{<<b>>, <<EligibleCode, b>>, <<b, EligibleCode>>,
            <<UnlistedCode, EligibleCode, b>>, <<EligibleCode, b, "SPDR03">>} :
           b \in blocked}

\* C7: a declined webhook whose declined_codes holds a retry-blocked code
\* creates no retry_pending row and does not block the user, whatever
\* eligible codes the list also holds and wherever they stand in it.  (The
\* table of retry-blocked codes is taken as given to the decision.)
C7_BlockedCodeNoRetry ==
    \A blocked \in BlockedTables :
        \A i \in DOMAIN kyc :
            \A codes \in ListsWithBlocked(blocked) :
                \A d \in WebhookData({kyc[i].reference},
                                     {<<"verification", "declined">>, <<>>}, {"0"},
                                     {<<>>}, {<<codes>>}) :
                    LET out == process_webhook_policy(users, kyc, d, blocked)
                    IN  /\ out.code = 200
                        /\ out.kyc[i].status = "declined"
                        /\ Len(out.kyc) = Len(kyc)
                        /\ \A u \in Users :
                               out.users[u].is_blocked = users[u].is_blocked

\* a decline has been processed, and for an awaiting row the same list of
\* codes schedules a retry when its last code is in no table and schedules
\* none when that code is retry-blocked
C7_Witness ==
    /\ resp.op = "webhook"
    /\ resp.code = 200
    /\ \E j \in DOMAIN kyc : kyc[j].status = "declined"
    /\ \E i \in awaiting(kyc) :
           LET d == [reference |-> kyc[i].reference,
                     event |-> <<"verification", "declined">>,
                     verification_status |-> "0", declined_reason |-> <<>>,
                     declined_codes |-> << <<EligibleCode, "SPBL01">> >>]
           IN  /\ Len(process_webhook_policy(users, kyc, d, {"SPBL01"}).kyc) = Len(kyc)
               /\ Len(process_webhook_policy(users, kyc, d, {}).kyc) = Len(kyc) + 1

\* C8: when webhook processing sets is_blocked of a user to true, that user
\* has at least 2 rows with status declined, before the webhook's own row
\* is written and after.
C8_BlockedOnlyAfterTwoDeclines ==
    \A d \in ClaimWebhooks({kyc[i].reference : i \in DOMAIN kyc}) :
        LET out == process_webhook_request(users, kyc, Json(d),
                                           ValidSignature(Json(d)), environment)
        IN  \A u \in Users :
                (~users[u].is_blocked /\ out.users[u].is_blocked) =>
                    /\ Cardinality(rows_with(kyc, u, "declined")) >= 2
                    /\ Cardinality(rows_with(out.kyc, u, "declined")) >= 2

\* the webhook handled last declined a row of a user who now is blocked and
\* has two declined rows
C8_Witness ==
    /\ resp.op = "webhook"
    /\ resp.code = 200
    /\ \E i \in DOMAIN kyc :
           /\ kyc[i].reference = resp.reference
           /\ kyc[i].status = "declined"
           /\ json_loads(kyc[i].provider_response).auto_retry /= <<>>
           /\ ~json_loads(kyc[i].provider_response).auto_retry[1].needed
           /\ users[kyc[i].user_id].is_blocked
           /\ Cardinality(rows_with(kyc, kyc[i].user_id, "declined")) = 2

\* C9: while is_blocked of a user is true, start_verification_by_user_id,
\* start_verification and start_retry_verification for that user end in an
\* error status, call the provider not at all and leave every row and user
\* as they are.
C9_BlockedUserRefused ==
    \A u \in Users :
        users[u].is_blocked =>
            \A provider \in ProviderResults :
                \A out \in {start_verification_by_user_id(users, kyc, u, provider),
                            start_verification(users, kyc, u, provider)}
                           \cup {start_retry_verification(users, kyc, u, provider, i) :
                                 i \in retry_pending_first(kyc, u)} :
                    /\ out.code >= 400
                    /\ ~out.provider_called
                    /\ out.kyc = kyc
                    /\ out.users = users

\* a blocked user who has a retry_pending row asked for the retry and was
\* refused
C9_Witness ==
    /\ resp.op = "retry"
    /\ resp.code = 400
    /\ resp.detail = "KYC verification is blocked"
    /\ resp.user_id \in Users
    /\ users[resp.user_id].is_blocked
    /\ rows_with(kyc, resp.user_id, "retry_pending") /= {}

\* C10: a webhook changes is_verified only when the status it writes is
\* verified or declined, and then makes it (status = verified); a webhook
\* that writes pending, cancelled or error leaves is_verified as it was;
\* no other user's is_verified changes.
C10_VerifiedFlagFollowsTerminal ==
    \A i \in DOMAIN kyc :
        \A d \in ClaimWebhooks({kyc[i].reference}) :
            LET out == process_webhook_request(users, kyc, Json(d),
                                               ValidSignature(Json(d)), environment)
                written == out.kyc[i].status
                u == kyc[i].user_id
            IN  /\ out.code = 200
                /\ written \in {"verified", "declined"} =>
                       out.users[u].is_verified = (written = "verified")
                /\ written \notin {"verified", "declined"} =>
                       out.users[u].is_verified = users[u].is_verified
                /\ \A v \in Users \ {u} :
                       out.users[v].is_verified = users[v].is_verified

\* a user with a verified row is verified after the webhook handled last
\* wrote pending to another row of that user
C10_Witness ==
    /\ resp.op = "webhook"
    /\ resp.code = 200
    /\ \E i, j \in DOMAIN kyc :
           /\ i /= j
           /\ kyc[i].user_id = kyc[j].user_id
           /\ kyc[i].status = "verified"
           /\ kyc[j].reference = resp.reference
           /\ kyc[j].status = "pending"
           /\ kyc[j].reviewed_at
           /\ users[kyc[i].user_id].is_verified

\* the newest row of user u (largest submitted_at: the table is kept in
\* insertion order), as a set: empty when the user has no row
newest(table, u) ==
    {i \in DOMAIN table : /\ table[i].user_id = u
                          /\ \A j \in DOMAIN table :
                                 table[j].user_id = u => j <= i}

\* C11: in every reachable state is_verified of a user is true if and only
\* if the user's newest row has status verified.
C11_VerifiedIffNewestVerified ==
    \A u \in Users :
        users[u].is_verified <=>
            (\E i \in newest(kyc, u) : kyc[i].status = "verified")

\* C12: when the same declined webhook with an eligible code is processed by
\* two requests at the same time, at most one retry_pending row is created
\* for that decline and the tables end as after processing the webhook
\* twice, one after the other.
C12_SerializedPerReference ==
    (/\ \A x \in Workers : inflight.w[x].pc = "done"
     /\ inflight.data.event = <<"verification", "declined">>) =>
        LET first == process_webhook(inflight.base[1], inflight.base[2],
                                     inflight.data)
            second == process_webhook(first.users, first.kyc, inflight.data)
        IN  /\ Len(kyc) <= Len(inflight.base[2]) + 1
            /\ kyc = second.kyc
            /\ users = second.users

\* C13: processing the same declined webhook (eligible code, same
\* reference) again, after the first delivery declined the row and
\* scheduled a retry, creates no further retry_pending row and does not
\* change is_blocked of any user.
C13_RedeliveryIdempotent ==
    (resp.op = "webhook" /\ resp.code = 200) =>
        \A i \in DOMAIN kyc :
            LET marker == json_loads(kyc[i].provider_response).auto_retry
                n == Len(kyc)
            IN  (/\ kyc[i].reference = resp.reference
                 /\ kyc[i].status = "declined"
                 /\ marker /= <<>>
                 /\ marker[1].needed
                 /\ marker[1].retry_reference = kyc[n].reference) =>
                    LET d == [reference |-> kyc[i].reference,
                              event |-> <<"verification", "declined">>,
                              verification_status |-> "0",
                              declined_reason |-> <<>>,
                              declined_codes |->
                                  <<json_loads(kyc[n].provider_response)
                                        .retry_info[1].decline_reasons>>]
                        out == process_webhook_request(
                                   users, kyc, Json(d), ValidSignature(Json(d)),
                                   environment)
                    IN  /\ out.code = 200
                        /\ Len(out.kyc) = n
                        /\ \A u \in Users :
                               out.users[u].is_blocked = users[u].is_blocked

\* C14: no request sees a row that a webhook has already written verified
\* or declined while is_verified of its user is not yet what that webhook
\* makes it: whenever a status request reports the status that a webhook
\* in flight wrote, is_verified = (status = verified).
C14_StatusAndFlagTogether ==
    \A w \in Workers :
        LET me == inflight.w[w]
        IN  (/\ me.pc = "propagate"
             /\ resp.op = "status"
             /\ resp.reference = kyc[me.i].reference
             /\ resp.detail = me.new_status
             /\ kyc[me.i].status = me.new_status) =>
                users[kyc[me.i].user_id].is_verified = (me.new_status = "verified")


\* environment modes of KYCConfig
Environments == {"production", "development"}

\* signatures offered for a payload: none, a malformed one, the right digest,
\* the right digest with its hex letters in upper case, the digest under
\* another key, and the right digest of another body
Signatures(payload) ==
    {NoSignature, ShortSignature, ValidSignature(payload), UpperSignature(payload),
     ForgedSignature(payload)}
    \cup {ValidSignature(q) : q \in {Json(NoData), EmptyPayload} \ {payload}}

\* C15: in every environment mode verify_webhook is true for the signature
\* SHA256(payload || SHA256(secret)) and false for every other signature,
\* an empty or malformed one and one that differs from the valid one in a
\* character included.
C15_VerifyExactlyTheDigest ==
    \A env \in Environments :
        \A payload \in ClaimPayloads(kyc) :
            \A signature \in Signatures(payload) :
                verify_webhook(payload, signature, env)
                    <=> (signature = ValidSignature(payload))


\* the provider results with which shufti.start_verification returns
ProviderSuccesses == {provider \in ProviderResults : provider.ok}

\* the rows of a table that differ from the rows of another of equal length
changed_rows(before, after) == {j \in DOMAIN before : after[j] /= before[j]}

C17_RetryPendingLeavesOnlyByRetry ==
    [][\A i \in DOMAIN kyc :
           (/\ kyc[i].status = "retry_pending"
            /\ i \in DOMAIN kyc'
            /\ kyc'[i].status /= "retry_pending")
               => (resp'.op = "retry" /\ kyc'[i].status = "pending")]_vars


\* the provider results with which the provider call raises
ProviderFailures == {provider \in ProviderResults : ~provider.ok}

\* a country that registration accepts and KYCConfig.supported_countries
\* does not hold
UnsupportedCountry == "SS"

\* C18: when the provider call fails, start_verification answers with a 4xx
\* code and creates no row, and start_retry_verification answers with a
\* failure and leaves the retry row retry_pending with its provider_response
\* as it was; an unsupported country is among the failures.
C18_ProviderFailureIs4xx ==
    \A u \in Users :
        ~users[u].is_blocked =>
            /\ \A provider \in ProviderFailures :
                   LET out == start_verification(users, kyc, u, provider)
                   IN  /\ out.code \in 400..499
                       /\ out.kyc = kyc
                       /\ out.users = users
            /\ \A provider \in ProviderFailures :
                   \A i \in retry_pending_first(kyc, u) \ {0} :
                       LET out == start_retry_verification(users, kyc, u, provider, i)
                       IN  /\ out.code \in 400..499
                           /\ out.kyc = kyc
                           /\ out.users = users
            /\ find_pending_verification_by_user(kyc, u) = {} =>
                   \A provider \in ProviderResults :
                       LET abroad == [users EXCEPT ![u].country = UnsupportedCountry]
                           out == start_verification_by_user_id(abroad, kyc, u, provider)
                       IN  /\ out.code \in 400..499
                           /\ out.kyc = kyc
                           /\ out.users = abroad


\* the statuses after which no webhook-driven transition is expected
terminal_statuses == {"verified", "declined", "cancelled"}

\* C19: a row whose status is verified, declined or cancelled is terminal:
\* no rightly signed webhook for its reference changes its status, and none
\* changes is_verified or is_blocked of the user who owns it.
C19_TerminalRowsStay ==
    \A i \in DOMAIN kyc :
        kyc[i].status \in terminal_statuses =>
            \A d \in ClaimWebhooks({kyc[i].reference}) :
                LET out == process_webhook_request(users, kyc, Json(d),
                                                   ValidSignature(Json(d)), environment)
                    u == kyc[i].user_id
                IN  /\ out.kyc[i].status = kyc[i].status
                    /\ out.users[u].is_verified = users[u].is_verified
                    /\ out.users[u].is_blocked = users[u].is_blocked

\* C20: a row that no webhook has completed (reviewed_at null) keeps
\* reviewed_at null when a webhook classified pending or error is processed
\* for it, and get_verification_status_by_user_id then reports
\* is_completed = false when that row is the newest of its user.
C20_ReviewedAtOnlyWhenTerminal ==
    \A i \in DOMAIN kyc :
        ~kyc[i].reviewed_at =>
            \A d \in ClaimWebhooks({kyc[i].reference}) :
                LET out == process_webhook_request(users, kyc, Json(d),
                                                   ValidSignature(Json(d)), environment)
                    u == kyc[i].user_id
                    got == get_verification_status_by_user_id(out.users, out.kyc, u)
                IN  out.kyc[i].status \notin terminal_statuses =>
                        /\ ~out.kyc[i].reviewed_at
                        /\ (got.body /= <<>> /\ got.body[1].reference = kyc[i].reference)
                               => ~got.body[1].is_completed


\* the values the specification allows for KYCVerification.status
Statuses ==
    {"initiated", "pending", "verified", "declined", "cancelled", "error",
     "retry_pending"}

\* results of the provider call with the events a start response may carry:
\* "request.pending", none, "verification.accepted", "request.invalid"
StartResults ==
    ProviderSuccesses
    \cup {[ok |-> TRUE, event |-> <<"verification", "accepted">>, raises |-> ""],
          [ok |-> TRUE, event |-> <<"request", "invalid">>, raises |-> ""]}

\* C21: the status of every row is one of initiated, pending, verified,
\* declined, cancelled, error, retry_pending: in every reachable state, and
\* after a start with whatever event the provider returned and after
\* whatever webhook.
C21_StatusInDomain ==
    /\ \A i \in DOMAIN kyc : kyc[i].status \in Statuses
    /\ \A u \in Users :
           \A provider \in StartResults :
               LET out == start_verification_by_user_id(users, kyc, u, provider)
               IN  \A i \in DOMAIN out.kyc : out.kyc[i].status \in Statuses
    /\ \A d \in ClaimWebhooks(ReferencesOf(kyc)) :
           LET out == process_webhook_request(users, kyc, Json(d),
                                              ValidSignature(Json(d)), environment)
           IN  \A i \in DOMAIN out.kyc : out.kyc[i].status \in Statuses


\* rightly signed webhook requests that cannot be handled: an empty body, a
\* body that is not JSON, and JSON bodies without a reference
MalformedPayloads ==
    {EmptyPayload, NotJsonPayload}
    \cup {Json(d) : d \in WebhookData({<<>>},
                                      {<<"verification", "accepted">>,
                                       <<"verification", "declined">>, <<>>},
                                      {""}, {<<>>}, {<<>>, << <<EligibleCode>> >>})}

\* C22: a webhook with an empty payload, with a payload that is not JSON or
\* with no reference is rejected with code 400 and changes no row of
\* kyc_verifications and no user.
C22_MalformedRejected400 ==
    \A payload \in MalformedPayloads :
        LET out == process_webhook_request(users, kyc, payload,
                                           ValidSignature(payload), environment)
        IN  /\ out.code = 400
            /\ out.kyc = kyc
            /\ out.users = users


\* ------------------------------------------------------------ health check
\* values of the environment variables: "" is a variable that is not set or
\* is empty
ClientIds == {"", "client-a", "client-b"}
SecretKeys == {"", SecretKey, OtherKey}
TtlValues == {"", "abc", "60", "3600"}
EnvironmentValues == {"", "staging", "production", "development"}
Environs ==
    [SHUFTI_CLIENT_ID : ClientIds, SHUFTI_SECRET_KEY : SecretKeys,
     VERIFICATION_TTL : TtlValues, ENVIRONMENT : EnvironmentValues]

\* an exception message: its wording, the names and the values put into it
Message(text, names, values) == [text |-> text, names |-> names, values |-> values]

\* get_required_env: ValueError "Environment variable '<name>' is required
\* but missing"
required_missing(name) == Message("is required but missing", {name}, {})

\* validate_ttl: 3600 <= v <= 43200
valid_ttl(v) == v = "3600"

\* get_kyc_config that puts every variable it read into its error message
get_kyc_config_dump(env) ==
    [config |-> <<>>,
     error |-> <<Message("Failed to load KYC configuration", {},
                         {env.SHUFTI_CLIENT_ID, env.SHUFTI_SECRET_KEY})>>]

\* get_kyc_config: the KYCConfig, or the ValueError it raises. The keyword
\* arguments are evaluated in order (client id, secret key, ..., TTL, ...,
\* environment), then the validators of KYCConfig run; a ValidationError
\* names the fields that failed and their input values
get_kyc_config(env) ==
    LET failed == [config |-> <<>>, error |-> <<>>]
    IN  IF env.SHUFTI_CLIENT_ID = ""
        THEN [failed EXCEPT !.error = <<required_missing("SHUFTI_CLIENT_ID")>>]
        ELSE IF env.SHUFTI_SECRET_KEY = ""
        THEN [failed EXCEPT !.error = <<required_missing("SHUFTI_SECRET_KEY")>>]
        ELSE IF env.VERIFICATION_TTL = ""
        THEN [failed EXCEPT !.error = <<required_missing("VERIFICATION_TTL")>>]
        ELSE IF env.VERIFICATION_TTL = "abc"
        THEN [failed EXCEPT !.error =
                 <<Message("invalid literal for int()", {}, {env.VERIFICATION_TTL})>>]
        ELSE IF env.ENVIRONMENT = ""
        THEN [failed EXCEPT !.error = <<required_missing("ENVIRONMENT")>>]
        ELSE LET bad == (IF valid_ttl(env.VERIFICATION_TTL)
                         THEN {} ELSE {"verification_ttl"})
                        \cup (IF env.ENVIRONMENT \in Environments
                              THEN {} ELSE {"environment"})
                 inputs == (IF valid_ttl(env.VERIFICATION_TTL)
                            THEN {} ELSE {env.VERIFICATION_TTL})
                           \cup (IF env.ENVIRONMENT \in Environments
                                 THEN {} ELSE {env.ENVIRONMENT})
             IN  IF bad /= {}
                 THEN [failed EXCEPT !.error =
                          <<Message("validation error for KYCConfig", bad, inputs)>>]
                 ELSE [config |-> <<[shufti_client_id |-> env.SHUFTI_CLIENT_ID,
                                     shufti_secret_key |-> env.SHUFTI_SECRET_KEY,
                                     verification_ttl |-> env.VERIFICATION_TTL,
                                     environment |-> env.ENVIRONMENT]>>,
                       error |-> <<>>]

\* KYCService.get_health_status (the timestamp is left out)
get_health_status(env) ==
    LET loaded == get_kyc_config(env)
    IN  IF loaded.config /= <<>>
        THEN [status |-> "healthy", environment |-> <<loaded.config[1].environment>>,
              error |-> <<>>]
        ELSE [status |-> "unhealthy", environment |-> <<>>, error |-> loaded.error]

\* GET /kyc/health
HealthCheck ==
    /\ resp' = [op |-> "health", user_id |-> NoSuchUser, code |-> 200,
                reference |-> <<>>, detail |-> get_health_status(environ)]
    /\ UNCHANGED <<users, kyc, environment, inflight, environ, starts, auth>>

\* a deployment with any setting of the environment variables
InitHealth ==
    /\ users = [u \in Users |-> Registered(u)]
    /\ kyc = <<>>
    /\ environment = "production"
    /\ resp = NoResponse
    /\ inflight = Quiet
    /\ environ \in Environs
    /\ starts = NoStarts
    /\ password_reset_tokens = {}
    /\ clock = 0
    /\ reset_log = [u \in Users |-> "none"]

NextHealth == HealthCheck

SpecHealth == InitHealth /\ [][NextHealth]_vars

\* the strings a health result holds: its environment and what its error
\* message was built from
strings_of(health) ==
    {health.environment[i] : i \in DOMAIN health.environment}
    \cup UNION {health.error[i].values : i \in DOMAIN health.error}

\* C23: for two settings of the environment variables in which client id
\* and secret key are set and which differ only in these two,
\* get_health_status returns the same status, environment and error, and no
\* field holds the client id or the secret key.
C23_HealthHidesSecrets ==
    (environ.SHUFTI_CLIENT_ID /= "" /\ environ.SHUFTI_SECRET_KEY /= "") =>
        \A id \in ClientIds \ {""}, key \in SecretKeys \ {""} :
            LET other == [environ EXCEPT !.SHUFTI_CLIENT_ID = id,
                                         !.SHUFTI_SECRET_KEY = key]
                mine == get_health_status(environ)
                theirs == get_health_status(other)
            IN  /\ mine.status = theirs.status
                /\ mine.environment = theirs.environment
                /\ mine.error = theirs.error
                /\ strings_of(mine) \cap {environ.SHUFTI_CLIENT_ID,
                                          environ.SHUFTI_SECRET_KEY} = {}

\* the health check answered unhealthy, with the input that failed in its
\* error, for a deployment whose client id and secret key are set
C23_Witness ==
    /\ resp.op = "health"
    /\ environ.SHUFTI_CLIENT_ID /= ""
    /\ environ.SHUFTI_SECRET_KEY /= ""
    /\ resp.detail.status = "unhealthy"
    /\ resp.detail.error /= <<>>
    /\ resp.detail.error[1].values /= {}


\* declined webhooks for the given references whose declined_codes hold the
\* given lists: declined by event and declined by the code map
Declines(references, lists) ==
    WebhookData(references, {<<"verification", "declined">>}, {"", "0"},
                {<<>>, <<"reason">>}, {<<codes>> : codes \in lists})
    \cup
    WebhookData(references, {<<>>}, {"0"}, {<<>>}, {<<codes>> : codes \in lists})

\* the references of the rows of a table
references_in(table) == {table[j].reference : j \in DOMAIN table}

\* C26: a declined webhook with an eligible code and no blocked code for a
\* row R of a user who has fewer than 2 declined rows creates exactly one
\* row: same user, retry_pending, reference RETRY_<n>_<R.reference>_<random>
\* that no row had, attempt_number n = (the user's declined rows before) + 1
\* and original_reference = R.reference; R ends declined with an auto_retry
\* marker, no other row changes and is_blocked of no user changes.
C26_RetryRowCreated ==
    \A i \in DOMAIN kyc :
        LET R == kyc[i]
            u == R.user_id
            n == Cardinality(rows_with(kyc, u, "declined")) + 1
        IN  n <= MaxRetryThreshold =>
                \A d \in Declines({R.reference}, EligibleLists) :
                    LET out == process_webhook_request(users, kyc, Json(d),
                                                       ValidSignature(Json(d)),
                                                       environment)
                        new == out.kyc[Len(kyc) + 1]
                        retry_info == json_loads(new.provider_response).retry_info
                        auto_retry == json_loads(out.kyc[i].provider_response).auto_retry
                    IN  /\ out.code = 200
                        /\ Len(out.kyc) = Len(kyc) + 1
                        /\ new.user_id = u
                        /\ new.status = "retry_pending"
                        /\ new.reference \notin references_in(kyc)
                        /\ Len(new.reference) = Len(R.reference) + 3
                        /\ new.reference[1] = "RETRY"
                        /\ new.reference[2] = ToString(n)
                        /\ SubSeq(new.reference, 3, Len(new.reference) - 1) = R.reference
                        /\ retry_info /= <<>>
                        /\ retry_info[1].attempt_number = n
                        /\ retry_info[1].original_reference = R.reference
                        /\ out.kyc[i].status = "declined"
                        /\ auto_retry /= <<>>
                        /\ auto_retry[1].needed
                        /\ auto_retry[1].retry_reference = new.reference
                        /\ changed_rows(kyc, SubSeq(out.kyc, 1, Len(kyc))) \subseteq {i}
                        /\ \A v \in Users : out.users[v].is_blocked = users[v].is_blocked

\* a declined webhook was answered with 200 and the table now ends with the
\* retry row made for the row it named, which is declined
C26_Witness ==
    /\ resp.op = "webhook"
    /\ resp.code = 200
    /\ Len(kyc) >= 2
    /\ kyc[Len(kyc)].status = "retry_pending"
    /\ json_loads(kyc[Len(kyc)].provider_response).retry_info /= <<>>
    /\ json_loads(kyc[Len(kyc)].provider_response).retry_info[1].original_reference
           = resp.reference
    /\ \E i \in DOMAIN kyc :
           /\ kyc[i].reference = resp.reference
           /\ kyc[i].status = "declined"
           /\ ~users[kyc[i].user_id].is_blocked


\* decline code lists without an eligible code: an empty list and lists of
\* codes that are in neither table
IneligibleLists == {<<>>, <<UnlistedCode>>, <<UnlistedCode, "SPDR99">>}

\* declined webhooks without declined_codes: with declined_reason only, and
\* with neither field
DeclinesWithoutCodes(references) ==
    WebhookData(references, {<<"verification", "declined">>}, {"", "0"},
                {<<>>, <<"reason">>}, {<<>>})
    \cup WebhookData(references, {<<>>}, {"0"}, {<<>>, <<"reason">>}, {<<>>})

\* C27: a declined webhook whose declined_codes holds no eligible code, or
\* that has only declined_reason or neither field, creates no row and
\* changes is_blocked of no user, however many declined rows the user has;
\* the row becomes declined and is_verified of its user becomes false.
C27_IneligibleDeclineNoRetry ==
    \A i \in DOMAIN kyc :
        \A d \in Declines({kyc[i].reference}, IneligibleLists)
                 \cup DeclinesWithoutCodes({kyc[i].reference}) :
            LET out == process_webhook_request(users, kyc, Json(d),
                                               ValidSignature(Json(d)), environment)
                u == kyc[i].user_id
            IN  /\ out.code = 200
                /\ Len(out.kyc) = Len(kyc)
                /\ changed_rows(kyc, out.kyc) \subseteq {i}
                /\ out.kyc[i].status = "declined"
                /\ ~out.users[u].is_verified
                /\ \A v \in Users : out.users[v].is_blocked = users[v].is_blocked

\* a webhook made a row declined without an auto_retry marker for a user who
\* then has 2 declined rows and is neither blocked nor verified
C27_Witness ==
    /\ resp.op = "webhook"
    /\ resp.code = 200
    /\ \E i \in DOMAIN kyc :
           /\ kyc[i].reference = resp.reference
           /\ kyc[i].status = "declined"
           /\ json_loads(kyc[i].provider_response).auto_retry = <<>>
           /\ json_loads(kyc[i].provider_response).webhook_data
           /\ Cardinality(rows_with(kyc, kyc[i].user_id, "declined")) >= 2
           /\ ~users[kyc[i].user_id].is_blocked
           /\ ~users[kyc[i].user_id].is_verified


\* the decline counter of process_webhook: the user's rows that are declined
declined_count(table, u) == Cardinality(rows_with(table, u, "declined"))

\* a declined webhook with an eligible code for a row of user u, who has 2
\* or more declined rows, creates no row and leaves is_blocked true, whether
\* an admin blocked or unblocked the user before it
exhausted_stays_blocked(u) ==
    \A block_status \in BOOLEAN :
        LET us == block_user(users, kyc, u, block_status).users
        IN  \A i \in DOMAIN kyc :
                kyc[i].user_id = u =>
                    \A d \in Declines({kyc[i].reference}, EligibleLists) :
                        LET out == process_webhook_request(us, kyc, Json(d),
                                                           ValidSignature(Json(d)),
                                                           environment)
                        IN  /\ out.code = 200
                            /\ Len(out.kyc) = Len(kyc)
                            /\ out.users[u].is_blocked

\* C28: the decline counter is never reset: once a user has 2 or more
\* declined rows the user has them in every later state, and in each of
\* these states a declined webhook with an eligible code for a row of the
\* user creates no retry row and leaves is_blocked true, also after an admin
\* has unblocked the user.
C28_CounterNeverReset ==
    /\ [](\A u \in Users : declined_count(kyc, u) >= MaxRetryThreshold
                               => exhausted_stays_blocked(u))
    /\ [][\A u \in Users : declined_count(kyc, u) >= MaxRetryThreshold
                               => declined_count(kyc', u) >= MaxRetryThreshold]_vars


\* --------------------------------------------- concurrent start requests
\* bound on the rows of kyc_verifications in SpecStartRace
MaxStartRecords == 3

\* POST /kyc/start as far as `await shufti.start_verification(...)`: the
\* request passes the checks of start_verification_by_user_id and
\* start_verification and is suspended, or it is answered at once (user not
\* found, blocked, profile incomplete, existing verification returned)
StartAwait(w) ==
    /\ starts[w].pc = "idle"
    /\ \E user_id \in UserIds :
           LET out == start_verification_by_user_id(users, kyc, user_id,
                          CHOOSE provider \in ProviderResults : provider.ok)
           IN  IF out.provider_called
               THEN /\ starts' = [starts EXCEPT ![w] = [pc |-> "awaiting",
                                                        user_id |-> user_id]]
                    /\ UNCHANGED <<users, kyc, environment, resp, inflight, environ, auth>>
               ELSE /\ resp' = [op |-> "start", user_id |-> user_id,
                                code |-> out.code, reference |-> out.reference,
                                detail |-> out.detail]
                    /\ UNCHANGED <<users, kyc, environment, inflight, environ, starts, auth>>

\* the provider call of a suspended request returns or raises, and the
\* request runs to its end: KYCVerification.create and the response
StartResume(w) ==
    /\ starts[w].pc = "awaiting"
    /\ \E provider \in ProviderResults :
           LET out == start_verification_resumed(users, kyc, starts[w].user_id,
                                                 provider)
           IN  /\ Len(out.kyc) <= MaxStartRecords
               /\ users' = out.users
               /\ kyc' = out.kyc
               /\ resp' = [op |-> "start", user_id |-> starts[w].user_id,
                           code |-> out.code, reference |-> out.reference,
                           detail |-> out.detail]
    /\ starts' = [starts EXCEPT ![w] = IdleStart]
    /\ UNCHANGED <<environment, inflight, environ, auth>>

\* the provider's verdict on a row that waits for it
StartVerdict ==
    \E i \in awaiting(kyc) :
        \E d \in WebhookData({kyc[i].reference},
                             {<<"verification", "accepted">>,
                              <<"verification", "declined">>}, {""}, {<<>>}, {<<>>}) :
            Handled("webhook", NoSuchUser,
                    process_webhook_request(users, kyc, Json(d),
                                            ValidSignature(Json(d)), environment),
                    MaxStartRecords)

NextStartRace ==
    \/ \E w \in Workers : StartAwait(w)
    \/ \E w \in Workers : StartResume(w)
    \/ StartVerdict

SpecStartRace == Init /\ [][NextStartRace]_vars

\* C29: two start_verification_by_user_id calls at the same time for a user
\* without an initiated or pending row create at most one row between them:
\* when a call creates its row, the user has no initiated or pending row,
\* as when the call checked.
C29_CheckAndCreateNotSeparated ==
    [][\A w \in Workers :
           (/\ starts[w].pc = "awaiting"
            /\ starts'[w].pc = "idle"
            /\ Len(kyc') > Len(kyc))
               => find_pending_verification_by_user(kyc, starts[w].user_id) = {}]_vars

\* -------------------------------------------------------------- UserService
\* what a UserService method leaves: the users table, the HTTP status (200 for
\* a return) and the error detail
Reply(us, code, detail) == [users |-> us, code |-> code, detail |-> detail]

\* the fields of the UserUpdate schema that the model keeps (last_name,
\* phone_number and country are handled as first_name is), and the keys a
\* request body may hold besides them
UserUpdateFields == {"email", "first_name", "is_verified", "is_admin"}
BodyKeys == UserUpdateFields \cup {"is_blocked"}
\* the values a body gives to a key, as JSON text
BodyValues ==
    [email |-> {Email["u2"], "eve@swaphubu.io"}, first_name |-> {"Eve"},
     is_verified |-> {"true"}, is_admin |-> {"true"}, is_blocked |-> {"false"}]
\* the JSON bodies of PUT /users/update
UpdateBodies ==
    UNION {{b \in [keys -> UNION {BodyValues[k] : k \in BodyKeys}] :
                \A k \in keys : b[k] \in BodyValues[k]} : keys \in SUBSET BodyKeys}

\* UserUpdate(**body): pydantic keeps the fields of the schema and ignores
\* every other key; model_fields_set is the domain of the result
UserUpdate(body) == [k \in DOMAIN body \cap UserUpdateFields |-> body[k]]

\* UserPasswordChange
Passwords == {"old-password", "new-password"}
PasswordChanges ==
    [current_password : Passwords, new_password : Passwords,
     confirm_password : Passwords]

\* UserRepository.find_by_email : the ids of the rows with that email
find_by_email(us, email) == {u \in DOMAIN us : us[u].email = email}

\* validate_update_conflicts raises ValueError: the email is the email of
\* another user
update_conflict(us, user_id, fields) ==
    /\ "email" \in DOMAIN fields
    /\ find_by_email(us, fields.email) \ {user_id} # {}

\* an authorization check that lets every caller through
is_anyone(us, current_user, user_id) == TRUE

\* the authorization check of every method: the caller acts on their own row,
\* or is an admin
is_self_or_admin(us, current_user, user_id) ==
    current_user = user_id \/ us[current_user].is_admin

admin_only_fields == {"is_verified", "is_admin", "is_blocked"}

\* UserRepository.update_user_data: only the allowed fields, only for a row
\* that is neither deleted nor blocked; None (<<>>) when nothing is allowed or
\* no such row is found
update_user_data_allowed == {"first_name"}
update_user_data(us, user_id, update_data) ==
    LET filtered_data ==
            [k \in DOMAIN update_data \cap update_user_data_allowed |->
                 update_data[k]]
    IN  IF DOMAIN filtered_data = {} THEN <<>>
        ELSE IF user_id \in DOMAIN us /\ ~us[user_id].is_deleted
                /\ ~us[user_id].is_blocked
        THEN <<User_update_all(us, user_id, filtered_data)>>
        ELSE <<>>

\* UserService.update_user_profile(user_id, user_data, current_user, db)
update_user_profile(us, user_id, user_data, current_user) ==
    LET user == User_get_by_id(us, user_id)
        fields_set == DOMAIN user_data
        update_data ==
            [k \in fields_set \cap {"first_name", "email"} |-> user_data[k]]
        updated == update_user_data(us, user_id, update_data)
    IN  IF user = <<>> THEN Reply(us, 404, "User not found")
        ELSE IF ~is_self_or_admin(us, current_user, user_id)
        THEN Reply(us, 403, "You can only update your own profile")
        ELSE IF user[1].is_deleted
        THEN Reply(us, 400, "Account is deactivated")
        ELSE IF update_conflict(us, user_id, user_data)
        THEN Reply(us, 400, "Email is already registered by another user")
        ELSE IF /\ fields_set \cap admin_only_fields # {}
                /\ ~us[current_user].is_admin
        THEN Reply(us, 403, "Only administrators can update this field")
        ELSE IF DOMAIN update_data = {}
        THEN Reply(us, 400, "No valid fields provided for update")
        ELSE IF updated # <<>>
        THEN Reply(updated[1], 200, "Profile updated successfully")
        ELSE Reply(User_update_all(us, user_id, update_data), 200,
                   "Profile updated successfully")

\* UserService.delete_user_account(user_id, current_user, db)
delete_user_account(us, user_id, current_user) ==
    LET user == User_get_by_id(us, user_id)
    IN  IF user = <<>> THEN Reply(us, 404, "User not found")
        ELSE IF ~is_self_or_admin(us, current_user, user_id)
        THEN Reply(us, 403, "You can only delete your own account")
        ELSE IF user[1].is_admin
        THEN Reply(us, 400, "Admin accounts cannot be deleted")
        ELSE IF user[1].is_deleted
        THEN Reply(us, 400, "Account is deactivated")
        ELSE Reply(User_delete(us, user_id), 200,
                   "Account deleted successfully")

\* UserService.change_password(user_id, password_data, current_user, db)
change_password(us, user_id, password_data, current_user) ==
    LET user == User_get_by_id(us, user_id)
    IN  IF user = <<>> THEN Reply(us, 404, "User not found")
        ELSE IF ~is_self_or_admin(us, current_user, user_id)
        THEN Reply(us, 403, "You can only change your own password")
        ELSE IF user[1].is_deleted
        THEN Reply(us, 400, "Account is deactivated")
        ELSE IF password_data.new_password # password_data.confirm_password
        THEN Reply(us, 400, "New passwords do not match")
        ELSE IF ~verify_password(password_data.current_password,
                                 user[1].password)
        THEN Reply(us, 400, "Current password is incorrect")
        ELSE IF verify_password(password_data.new_password, user[1].password)
        THEN Reply(us, 400,
                   "New password must be different from current password")
        ELSE Reply(User_update_all(us, user_id,
                       [password |-> hash_password(password_data.new_password)]),
                   200, "Password changed successfully")

\* UserService.get_user_profile(user_id, current_user, db)
get_user_profile(us, user_id, current_user) ==
    LET user == User_get_by_id(us, user_id)
    IN  IF user = <<>> THEN Reply(us, 404, "User not found")
        ELSE IF ~is_self_or_admin(us, current_user, user_id)
        THEN Reply(us, 403, "You can only access your own profile")
        ELSE IF user[1].is_deleted
        THEN Reply(us, 400, "Account is deactivated")
        ELSE Reply(us, 200, "Profile retrieved successfully")

\* get_current_user: the callers a request can be authenticated as
current_users(us) == {u \in DOMAIN us : User_get_by_id(us, u) # <<>>}

\* a UserService method ran as operation op on user_id with reply out
Replied(op, user_id, out) ==
    /\ users' = out.users
    /\ resp' = [op |-> op, user_id |-> user_id, code |-> out.code,
                reference |-> <<>>, detail |-> out.detail]
    /\ UNCHANGED <<kyc, settings, inflight>>

UpdateProfile ==
    \E current_user \in current_users(users), user_id \in UserIds,
       body \in UpdateBodies :
        Replied("update_user_profile", user_id,
                update_user_profile(users, user_id, UserUpdate(body),
                                    current_user))

DeleteAccount ==
    \E current_user \in current_users(users), user_id \in UserIds :
        Replied("delete_user_account", user_id,
                delete_user_account(users, user_id, current_user))

ChangePassword ==
    \E current_user \in current_users(users), user_id \in UserIds,
       password_data \in PasswordChanges :
        Replied("change_password", user_id,
                change_password(users, user_id, password_data, current_user))

GetProfile ==
    \E current_user \in current_users(users), user_id \in UserIds :
        Replied("get_user_profile", user_id,
                get_user_profile(users, user_id, current_user))

\* the users of a deployment: u2 may be an admin, u1 may be blocked or verified
InitUsers ==
    /\ \E admin, blocked, verified \in BOOLEAN :
           users = [u \in Users |->
                        IF u = "u2"
                        THEN [Registered(u) EXCEPT !.is_admin = admin]
                        ELSE [Registered(u) EXCEPT !.is_blocked = blocked,
                                                   !.is_verified = verified]]
    /\ kyc = <<>>
    /\ environment = "production"
    /\ resp = NoResponse
    /\ inflight = Quiet
    /\ environ = ProductionEnviron
    /\ starts = NoStarts
    /\ password_reset_tokens = {}
    /\ clock = 0
    /\ reset_log = [u \in Users |-> "none"]

NextUsers == UpdateProfile \/ DeleteAccount \/ ChangePassword \/ GetProfile

SpecUsers == InitUsers /\ [][NextUsers]_vars

\* C24: a caller who is not an admin and acts on another user's row gets 403
\* from update_user_profile, delete_user_account, change_password and
\* get_user_profile, and the users table is left as it was
C24_OtherUserForbidden ==
    \A current_user \in current_users(users), user_id \in DOMAIN users :
        (/\ current_user # user_id
         /\ ~users[current_user].is_admin
         /\ User_get_by_id(users, user_id) # <<>>)
        => /\ \A body \in UpdateBodies :
                  LET out == update_user_profile(users, user_id,
                                                 UserUpdate(body), current_user)
                  IN  out.code = 403 /\ out.users = users
           /\ \A password_data \in PasswordChanges :
                  LET out == change_password(users, user_id, password_data,
                                             current_user)
                  IN  out.code = 403 /\ out.users = users
           /\ LET out == delete_user_account(users, user_id, current_user)
              IN  out.code = 403 /\ out.users = users
           /\ LET out == get_user_profile(users, user_id, current_user)
              IN  out.code = 403 /\ out.users = users

\* a non-admin user was refused the deletion of another user's account, and
\* that account is still there
C24_Witness ==
    /\ resp.op = "delete_user_account"
    /\ resp.code = 403
    /\ resp.user_id \in DOMAIN users
    /\ ~users[resp.user_id].is_deleted

\* the admin-only columns of the users table
admin_flags(us) ==
    [u \in DOMAIN us |-> <<us[u].is_verified, us[u].is_admin, us[u].is_blocked>>]

\* C25: update_user_profile never changes is_verified, is_admin or is_blocked
\* of any user, whoever the caller is; and when a caller who is not an admin
\* supplies one of these fields for a user that exists, the call fails with
\* 403 and the users table is left as it was
C25_AdminFieldsRefused ==
    \A current_user \in current_users(users), user_id \in UserIds,
       body \in UpdateBodies :
        LET out == update_user_profile(users, user_id, UserUpdate(body),
                                       current_user)
        IN  /\ admin_flags(out.users) = admin_flags(users)
            /\ (/\ ~users[current_user].is_admin
                /\ DOMAIN body \cap admin_only_fields # {}
                /\ User_get_by_id(users, user_id) # <<>>)
               => out.code = 403 /\ out.users = users

\* update_user_profile never changes the admin-only columns
C25_AdminFlagsKept ==
    \A current_user \in current_users(users), user_id \in UserIds,
       body \in UpdateBodies :
        admin_flags(update_user_profile(users, user_id, UserUpdate(body),
                                        current_user).users)
            = admin_flags(users)

\* a user who sends is_blocked next to a new first name for their own
\* profile is answered with 200 and has the new first name: UserUpdate has no
\* field is_blocked
C25_BlockedFieldIgnored ==
    LET body == [first_name |-> "Eve", is_blocked |-> "false"]
        out == update_user_profile(users, "u1", UserUpdate(body), "u1")
    IN  "u1" \in current_users(users)
        => out.code = 200 /\ out.users["u1"].first_name = "Eve"

\* ------------------------------------------------------ password-reset flow
\* the clock counts half hours; a reset token lives RESET_TOKEN_EXPIRE_HOURS
TicksPerHour == 2
RESET_TOKEN_EXPIRE_HOURS == 1
MaxClock == 3

\* the 6-digit codes secrets.randbelow may draw, and their SHA-256 digests
Codes == {"111111", "222222"}
sha256(code) == [sha256 |-> code]

\* the emails a request may name: the users' and one without an account
RequestEmails == {Email[u] : u \in Users} \cup {"nobody@swaphubu.io"}
\* PasswordResetRequest
PasswordResetRequests ==
    [email : RequestEmails, new_password : {"new-password"},
     confirm_password : Passwords]

\* what a function of auth_service leaves: both tables, the HTTP status (200
\* for a return), the error detail and the user it succeeded for
AuthReply(us, tokens, code, detail, user_id) ==
    [users |-> us, tokens |-> tokens, code |-> code, detail |-> detail,
     user_id |-> user_id]

\* `query.first()`: None (<<>>) for no row, any row otherwise
first(rows) == IF rows = {} THEN {<<>>} ELSE {<<r>> : r \in rows}

\* PasswordResetTokenRepository.find_active_tokens_for_user
find_active_tokens_for_user(tokens, user_id, now) ==
    {t \in tokens : /\ t.user_id = user_id
                    /\ t.expires_at > now
                    /\ ~t.used}

\* PasswordResetTokenRepository.delete_all_for_user: what is left
delete_all_for_user(tokens, user_id) == {t \in tokens : t.user_id # user_id}

\* PasswordResetTokenRepository.find_by_user_email_and_token
find_by_user_email_and_token(us, tokens, email, token_hash, now) ==
    {t \in tokens : /\ us[t.user_id].email = email
                    /\ t.token_hash = token_hash
                    /\ t.expires_at > now
                    /\ ~us[t.user_id].is_deleted}

\* PasswordResetTokenRepository.find_verified_token_by_user_email
find_verified_token_by_user_email(us, tokens, email, now) ==
    {t \in tokens : /\ us[t.user_id].email = email
                    /\ t.is_verified
                    /\ ~t.used
                    /\ t.expires_at > now
                    /\ ~us[t.user_id].is_deleted}

\* PasswordResetTokenRepository.mark_as_verified
mark_as_verified(tokens, t) ==
    (tokens \ {t}) \cup {[t EXCEPT !.is_verified = TRUE]}

\* a generate_reset_token that keeps the tokens the user has
generate_reset_token_keep(tokens, user_id, now, reset_token) ==
    tokens \cup
        {[user_id |-> user_id, token_hash |-> sha256(reset_token),
          expires_at |-> now + RESET_TOKEN_EXPIRE_HOURS * TicksPerHour,
          is_verified |-> FALSE, used |-> FALSE]}

\* generate_reset_token(user, db): the table after it; reset_token is the
\* code that was drawn
generate_reset_token(tokens, user_id, now, reset_token) ==
    LET existing_tokens == find_active_tokens_for_user(tokens, user_id, now)
        kept == IF existing_tokens # {}
                THEN delete_all_for_user(tokens, user_id)
                ELSE tokens
    IN  kept \cup
            {[user_id |-> user_id, token_hash |-> sha256(reset_token),
              expires_at |-> now + RESET_TOKEN_EXPIRE_HOURS * TicksPerHour,
              is_verified |-> FALSE, used |-> FALSE]}

\* forgot_password(request_data, db); user is find_by_email(...).first()
forgot_password(us, tokens, email, now, reset_token, user) ==
    IF user = <<>> \/ us[user[1]].is_deleted
    THEN AuthReply(us, tokens, 404, "No account found with this email address",
                   NoSuchUser)
    ELSE AuthReply(us, generate_reset_token(tokens, user[1], now, reset_token),
                   200, "Reset code sent", user[1])

\* verify_reset_code(email, code, db); reset_token is the row the query for
\* the code gave
verify_reset_code(us, tokens, email, code, user, reset_token) ==
    IF user = <<>> \/ us[user[1]].is_deleted
    THEN AuthReply(us, tokens, 404, "No account found with this email address",
                   NoSuchUser)
    ELSE IF reset_token = <<>>
    THEN AuthReply(us, tokens, 400, "Invalid or expired reset code", NoSuchUser)
    ELSE IF reset_token[1].used
    THEN AuthReply(us, tokens, 400, "Reset code has already been used",
                   NoSuchUser)
    ELSE AuthReply(us, mark_as_verified(tokens, reset_token[1]), 200,
                   "Reset code verified successfully", user[1])

\* reset_user_password_with_verification(email, new_password, db);
\* reset_token is the row the query for a verified token gave
reset_user_password_with_verification(us, tokens, email, new_password, user, reset_token) ==
    IF user = <<>> \/ us[user[1]].is_deleted
    THEN AuthReply(us, tokens, 404, "No account found with this email address",
                   NoSuchUser)
    ELSE IF reset_token = <<>>
    THEN AuthReply(us, tokens, 400, "Reset code must be verified first",
                   NoSuchUser)
    ELSE AuthReply(User_update_all(us, user[1],
                       [password |-> hash_password(new_password)]),
                   delete_all_for_user(tokens, user[1]), 200,
                   "Password reset successful", user[1])

\* reset_password(reset_data, db)
reset_password(us, tokens, reset_data, user, reset_token) ==
    IF reset_data.new_password # reset_data.confirm_password
    THEN AuthReply(us, tokens, 400,
                   "New password and confirmation do not match", NoSuchUser)
    ELSE reset_user_password_with_verification(
             us, tokens, reset_data.email, reset_data.new_password, user,
             reset_token)

\* change_user_password(user, password_data, db)
change_user_password(us, tokens, user_id, password_data) ==
    IF ~verify_password(password_data.current_password, us[user_id].password)
    THEN AuthReply(us, tokens, 400, "Current password is incorrect", NoSuchUser)
    ELSE IF verify_password(password_data.new_password, us[user_id].password)
    THEN AuthReply(us, tokens, 400,
                   "New password must be different from current password",
                   NoSuchUser)
    ELSE IF password_data.new_password # password_data.confirm_password
    THEN AuthReply(us, tokens, 400,
                   "New password and confirmation do not match", NoSuchUser)
    ELSE AuthReply(User_update_all(us, user_id,
                       [password |-> hash_password(password_data.new_password)]),
                   delete_all_for_user(tokens, user_id), 200,
                   "Password changed successfully", user_id)

\* a function of auth_service ran as operation op with reply out; when it
\* succeeded for a user, step is noted as the last step of that user's flow
Answered(op, out, step) ==
    /\ users' = out.users
    /\ password_reset_tokens' = out.tokens
    /\ resp' = [op |-> op, user_id |-> out.user_id, code |-> out.code,
                reference |-> <<>>, detail |-> out.detail]
    /\ reset_log' = IF out.code = 200
                    THEN [reset_log EXCEPT ![out.user_id] = step]
                    ELSE reset_log
    /\ UNCHANGED <<kyc, environment, environ, starts, inflight, clock>>

\* POST /auth/forgot-password
ForgotPassword ==
    \E email \in RequestEmails, reset_token \in Codes :
        \E user \in first(find_by_email(users, email)) :
            Answered("forgot_password",
                     forgot_password(users, password_reset_tokens, email,
                                     clock, reset_token, user),
                     "requested")

\* POST /auth/verify-reset-code
VerifyResetCode ==
    \E email \in RequestEmails, code \in Codes :
        \E user \in first(find_by_email(users, email)),
           reset_token \in first(find_by_user_email_and_token(
                                     users, password_reset_tokens, email,
                                     sha256(code), clock)) :
            Answered("verify_reset_code",
                     verify_reset_code(users, password_reset_tokens, email,
                                       code, user, reset_token),
                     "verified")

\* POST /auth/reset-password
ResetPassword ==
    \E reset_data \in PasswordResetRequests :
        \E user \in first(find_by_email(users, reset_data.email)),
           reset_token \in first(find_verified_token_by_user_email(
                                     users, password_reset_tokens,
                                     reset_data.email, clock)) :
            Answered("reset_password",
                     reset_password(users, password_reset_tokens, reset_data,
                                    user, reset_token),
                     "reset")

\* change_user_password for an authenticated user
ChangeUserPassword ==
    \E user_id \in current_users(users), password_data \in PasswordChanges :
        Answered("change_user_password",
                 change_user_password(users, password_reset_tokens, user_id,
                                      password_data),
                 "changed")

\* half an hour passes
Tick ==
    /\ clock < MaxClock
    /\ clock' = clock + 1
    /\ UNCHANGED <<users, kyc, environment, environ, starts, inflight, resp,
                   password_reset_tokens, reset_log>>

NextReset ==
    \/ ForgotPassword
    \/ VerifyResetCode
    \/ ResetPassword
    \/ ChangeUserPassword
    \/ Tick

SpecReset == Init /\ [][NextReset]_vars

\* the reset tokens of user u
tokens_of(tokens, u) == {t \in tokens : t.user_id = u}

\* C30: reset_password succeeds for a user only if the last step of that
\* user's flow was a successful verify_reset_code, that is, a code of theirs
\* was verified after their latest forgot_password and no reset or password
\* change came after it; and a successful reset or change_user_password
\* leaves the user without reset tokens (a step that keeps the clock is a
\* request, and resp' is its response)
C30_ResetNeedsFreshVerification ==
    [][clock' = clock =>
         /\ (resp'.op = "reset_password" /\ resp'.code = 200)
              => /\ reset_log[resp'.user_id] = "verified"
                 /\ tokens_of(password_reset_tokens', resp'.user_id) = {}
         /\ (resp'.op = "change_user_password" /\ resp'.code = 200)
              => tokens_of(password_reset_tokens', resp'.user_id) = {}]_vars

\* a password was reset: the user has the new password and no token is left
C30_Witness ==
    /\ resp.op = "reset_password"
    /\ resp.code = 200
    /\ verify_password("new-password", users[resp.user_id].password)
    /\ reset_log[resp.user_id] = "reset"
    /\ tokens_of(password_reset_tokens, resp.user_id) = {}

====
